---- MODULE Spec2Model ----
(***************************************************************************)
(* GHero: a three-lane rhythm game.  The model covers the gameplay engine  *)
(* (Game), the audio manager (AudioManager / MIDIAudioStreamer), the chart *)
(* loader (MIDIProcessor) and the chart parser (SimpleMIDIParser).         *)
(*                                                                         *)
(* Time is counted in milliseconds: the source's float64 seconds 0.05,     *)
(* 0.1, 0.15, 0.2, 0.3, 2.0, 30.0 are 50, 100, 150, 200, 300, 2000, 30000. *)
(***************************************************************************)
EXTENDS Integers, Sequences, FiniteSets, TLC

(* ---------------------------------------------------------------------- *)
(* Program constants                                                      *)
(* ---------------------------------------------------------------------- *)
StateMenu == 0
StatePlaying == 1
StateGameOver == 2

Miss == 0
OK == 1
Good == 2
Perfect == 3

SCREEN_HEIGHT == 600
HIT_LINE_Y == 500
NOTE_SPEED == 200
GAME_DURATION == 30000

LaneIdx == 0 .. 2

(* ---------------------------------------------------------------------- *)
(* Bounds of the model                                                    *)
(* ---------------------------------------------------------------------- *)
\* Frame instants: a frame of the main loop happens at a multiple of 50 ms of
\* the session clock, from LeadFrames frames before the start of some note to
\* TailFrames frames after its end (and at least until the note has scrolled
\* off the screen), or at the first instant of the session, or at the two
\* instants around the end of the session.  The next frame is the first such
\* instant that is at least a gap after the current one; a gap is up to
\* MaxFrame * 50 ms, or a stall of 600 ms.
LeadFrames == 4
TailFrames == 4
MaxFrame == 2
Gaps == {50 * k : k \in 1 .. MaxFrame} \cup {600}
NearNote(note, t) ==
    /\ t >= note.StartTime - 50 * LeadFrames
    /\ \/ t <= note.StartTime + note.Duration + 50 * TailFrames
       \/ t <= note.StartTime + 800
IsInstant(notes, t) ==
    \/ t = 50
    \/ t >= 30000
    \/ \E i \in 1 .. Len(notes) : NearNote(notes[i], t)
Least(S) == CHOOSE t \in S : \A u \in S : t <= u
FirstInstant(notes, u) ==
    IF IsInstant(notes, u) THEN u
    ELSE Least({v \in {30000} \cup {notes[i].StartTime - 50 * LeadFrames : i \in 1 .. Len(notes)} :
                  v > u})
NextInstants(notes, now) == {FirstInstant(notes, now + gap) : gap \in Gaps}

\* The longest gap between two frames of a steady session, in ms.
MaxGap == 500

\* Key states offered to a frame: at most MaxKeys lane keys are down at once,
\* and only keys of lanes that have a note are touched.
MaxKeys == 1

\* The speaker pulls at most MaxPulls buffers from the stream per playback.
MaxPulls == 2
MaxCut == 4

\* Timing differences are judged for every millisecond up to MaxDiff.
MaxDiff == 250

\* A scoring run resolves at most MaxResolutions notes.
MaxResolutions == 12
KeyStates(notes) ==
    {k \in [LaneIdx -> BOOLEAN] :
        /\ Cardinality({i \in LaneIdx : k[i]}) <= MaxKeys
        /\ \A i \in LaneIdx : k[i] => \E j \in 1 .. Len(notes) : notes[j].Lane = i}

(* ---------------------------------------------------------------------- *)
(* Charts: tracks as MIDIProcessor holds them before FindGuitarTrack      *)
(* ---------------------------------------------------------------------- *)
MIDINote(p, v, s, d, l) == [Pitch |-> p, Velocity |-> v, StartTime |-> s, Duration |-> d, Lane |-> l]

createTestData ==
    << MIDINote(64, 80, 1000, 500, 0),
       MIDINote(67, 85, 1500, 500, 1),
       MIDINote(72, 90, 2000, 500, 2),
       MIDINote(64, 80, 2500, 1000, 0),
       MIDINote(69, 85, 3000, 500, 1) >>

\* one sustained note; one short note
OneLong == << MIDINote(62, 90, 1000, 500, 0) >>
OneShort == << MIDINote(62, 90, 1000, 200, 0) >>

\* the charts of the sessions that may be restarted
Charts == {OneLong, OneShort, << >>}

\* a short note and a sustained note in different lanes
ShortLong == << MIDINote(45, 90, 1000, 200, 0), MIDINote(62, 90, 1100, 400, 0) >>

\* five short notes in one lane, 100 ms apart, the earliest at 5.0 s
ShortFive ==
    << MIDINote(60, 90, 5000, 200, 0),
       MIDINote(64, 90, 5100, 300, 0),
       MIDINote(72, 90, 5200, 100, 0),
       MIDINote(65, 90, 5300, 200, 0),
       MIDINote(66, 90, 5400, 250, 0) >>

\* five notes in one lane, the third one sustained
FiveWithLong ==
    << MIDINote(60, 90, 5000, 200, 0),
       MIDINote(64, 90, 5100, 300, 0),
       MIDINote(72, 90, 5200, 400, 0),
       MIDINote(65, 90, 5300, 200, 0),
       MIDINote(66, 90, 5400, 250, 0) >>

\* two short notes that sound together for a while, in different lanes
Chord == << MIDINote(45, 90, 1000, 200, 0), MIDINote(62, 90, 1100, 250, 0) >>

\* two sustained notes in one lane
TwoLong == << MIDINote(62, 90, 1000, 400, 0), MIDINote(64, 90, 1600, 400, 0) >>

\* the charts of the sessions with audio pulls
AudioCharts == {OneShort, Chord}

\* the charts of the single sessions
SessionCharts == {ShortLong, ShortFive, FiveWithLong}

\* raw times around the end of the 30 s window (the earliest note is the
\* second one): a note that ends past 30 s, one that starts at exactly 30 s
\* and one that starts past 30 s
ClipChart ==
    << MIDINote(62, 90, 32900, 400, 0), MIDINote(62, 90, 5000, 200, 0),
       MIDINote(62, 90, 33000, 300, 0), MIDINote(62, 90, 33100, 200, 0) >>

\* a chart whose only note starts 1000000 s into the song
LateChart == << MIDINote(62, 90, 1000000000, 200, 0) >>

\* pitches on both sides of the two lane boundaries
LaneChart ==
    << MIDINote(59, 90, 5000, 200, 0), MIDINote(60, 90, 5100, 200, 0),
       MIDINote(72, 90, 5200, 200, 0), MIDINote(73, 90, 5300, 200, 0) >>

\* the charts of the adapter runs
AdapterCharts == {ClipChart, LateChart, ShortLong, LaneChart, createTestData}

(* ---------------------------------------------------------------------- *)
(* MIDIProcessor                                                          *)
(* ---------------------------------------------------------------------- *)
\* mutant: pitch 60 goes to lane 0
assignLane_Shifted(pitch) == IF pitch <= 60 THEN 0 ELSE IF pitch <= 72 THEN 1 ELSE 2

assignLane(pitch) == IF pitch < 60 THEN 0 ELSE IF pitch <= 72 THEN 1 ELSE 2

assignLanes(notes) ==
    [i \in 1 .. Len(notes) |-> [notes[i] EXCEPT !.Lane = assignLane(notes[i].Pitch)]]

(* ---------------------------------------------------------------------- *)
(* SimpleMIDIParser                                                       *)
(* ---------------------------------------------------------------------- *)
\* data is a sequence of bytes 0 .. 255; position counts from 0 as in the
\* source, so data[position] of the source is byteAt(data, position).
\* Parsed times are kept exactly: a time of x seconds is the integer
\* x * ticksPerBeat * 1000000 (ticksToSeconds(ticks) is ticks * tempo), and the
\* inputs have ticksPerBeat > 0.
byteAt(data, pos) == data[pos + 1]
inData(data, pos) == pos >= 0 /\ pos < Len(data)

MThd == << 77, 84, 104, 100 >>
MTrk == << 77, 84, 114, 107 >>

Uint16(data, pos) == byteAt(data, pos) * 256 + byteAt(data, pos + 1)
Uint32(data, pos) ==
    ((byteAt(data, pos) * 256 + byteAt(data, pos + 1)) * 256 + byteAt(data, pos + 2)) * 256
        + byteAt(data, pos + 3)

NewSimpleMIDIParser ==
    [pc |-> "new", data |-> << >>, position |-> 0, ticksPerBeat |-> 0, tempo |-> 500000,
     err |-> "", warning |-> "", notes |-> << >>, trackEnd |-> 0, trackNotes |-> << >>,
     activeNotes |-> << >>, currentTick |-> 0, runningStatus |-> 0]

\* readVariableLength from position pos: [value, pos, err]
RECURSIVE readVariableLengthFrom(_, _, _, _)
readVariableLengthFrom(data, pos, value, i) ==
    IF i >= 4 THEN [value |-> value, pos |-> pos, err |-> FALSE]
    ELSE IF pos >= Len(data) THEN [value |-> 0, pos |-> pos, err |-> TRUE]
    ELSE LET b == byteAt(data, pos)
             v == value * 128 + (b % 128)
         IN IF b < 128 THEN [value |-> v, pos |-> pos + 1, err |-> FALSE]
            ELSE readVariableLengthFrom(data, pos + 1, v, i + 1)

\* mutant: the quantity ends after 3 bytes
readVariableLength_ThreeBytes(data, pos) == readVariableLengthFrom(data, pos, 0, 1)

readVariableLength(data, pos) == readVariableLengthFrom(data, pos, 0, 0)

ticksToSeconds(ps, ticks) == ticks * ps.tempo

\* the default duration 0.5 s of a note left open
defaultDuration(ps) == 500000 * ps.ticksPerBeat

parseHeader(ps) ==
    IF Len(ps.data) < 14 THEN [ps EXCEPT !.err = "file too short for header"]
    ELSE IF SubSeq(ps.data, 1, 4) # MThd
         THEN [ps EXCEPT !.err = "invalid MIDI header signature"]
         ELSE [ps EXCEPT !.position = 14, !.ticksPerBeat = Uint16(ps.data, 12)]

\* the start of parseTrack, up to the event loop
parseTrackHeader(ps) ==
    IF ps.position + 8 > Len(ps.data)
    THEN [ps EXCEPT !.err = "not enough data for track header"]
    ELSE IF SubSeq(ps.data, ps.position + 1, ps.position + 4) # MTrk
         THEN [ps EXCEPT !.err = "invalid track header signature"]
         ELSE [ps EXCEPT !.trackEnd = ps.position + 8 + Uint32(ps.data, ps.position + 4),
                         !.position = ps.position + 8,
                         !.trackNotes = << >>,
                         !.activeNotes = << >>,
                         !.currentTick = 0,
                         !.runningStatus = 0]

\* activeNotes is the map pitch -> note, a function on the open pitches
isOpen(ps, pitch) == pitch \in DOMAIN ps.activeNotes

openNote(ps, pitch, note) ==
    [ps EXCEPT !.activeNotes =
        [q \in DOMAIN ps.activeNotes \cup {pitch} |->
            IF q = pitch THEN note ELSE ps.activeNotes[q]]]

closeNote(ps, pitch) ==
    IF isOpen(ps, pitch)
    THEN [ps EXCEPT !.trackNotes =
                        Append(@, [ps.activeNotes[pitch] EXCEPT
                                      !.Duration = ticksToSeconds(ps, ps.currentTick)
                                                      - ps.activeNotes[pitch].StartTime]),
                    !.activeNotes = [q \in DOMAIN ps.activeNotes \ {pitch} |-> ps.activeNotes[q]]]
    ELSE ps

panic(ps) == [ps EXCEPT !.pc = "panic"]

\* case 0x90 of the switch; ps.position is at the first data byte
noteOnEvent(ps) ==
    IF ps.position + 2 > ps.trackEnd THEN ps
    ELSE IF ~inData(ps.data, ps.position) \/ ~inData(ps.data, ps.position + 1) THEN panic(ps)
    ELSE LET pitch    == byteAt(ps.data, ps.position)
             velocity == byteAt(ps.data, ps.position + 1)
             p2       == [ps EXCEPT !.position = @ + 2]
         IN IF velocity > 0
            THEN openNote(p2, pitch, MIDINote(pitch, velocity,
                                              ticksToSeconds(ps, ps.currentTick), 0, 0))
            ELSE closeNote(p2, pitch)

\* case 0x80 of the switch
noteOffEvent(ps) ==
    IF ps.position + 2 > ps.trackEnd THEN ps
    ELSE IF ~inData(ps.data, ps.position) THEN panic(ps)
    ELSE closeNote([ps EXCEPT !.position = @ + 2], byteAt(ps.data, ps.position))

\* case 0xFF of the switch
metaEvent(ps) ==
    IF ps.position >= ps.trackEnd THEN ps
    ELSE IF ~inData(ps.data, ps.position) THEN panic(ps)
    ELSE LET metaType == byteAt(ps.data, ps.position)
             r        == readVariableLength(ps.data, ps.position + 1)
             p2       == [ps EXCEPT !.position = r.pos]
         IN IF r.err \/ r.pos + r.value > ps.trackEnd THEN p2
            ELSE IF metaType = 81 /\ r.value = 3
                 THEN IF ~inData(ps.data, r.pos + 2) THEN panic(p2)
                      ELSE [p2 EXCEPT !.tempo = (byteAt(ps.data, r.pos) * 256
                                                   + byteAt(ps.data, r.pos + 1)) * 256
                                                  + byteAt(ps.data, r.pos + 2),
                                      !.position = r.pos + r.value]
                 ELSE [p2 EXCEPT !.position = r.pos + r.value]

dataBytes == << 2, 2, 2, 2, 1, 1, 2 >>

\* the default case of the switch
otherEvent(ps, status) ==
    IF status < 240
    THEN LET msgType == (status \div 16) % 8
         IN IF msgType < Len(dataBytes)
            THEN [ps EXCEPT !.position = @ + dataBytes[msgType + 1]]
            ELSE ps
    ELSE ps

\* switch status & 0xF0
dispatch(ps, status) ==
    LET high == (status \div 16) * 16
    IN CASE high = 144 -> noteOnEvent(ps)
         [] high = 128 -> noteOffEvent(ps)
         [] high = 255 -> metaEvent(ps)
         [] OTHER -> otherEvent(ps, status)

\* one iteration of the event loop of parseTrack; pc becomes "flush" when
\* the loop is left by a break
parseEvent(ps) ==
    LET r == readVariableLength(ps.data, ps.position)
    IN IF r.err THEN [ps EXCEPT !.position = r.pos, !.pc = "flush"]
       ELSE LET p1 == [ps EXCEPT !.position = r.pos, !.currentTick = @ + r.value]
            IN IF p1.position >= p1.trackEnd THEN [p1 EXCEPT !.pc = "flush"]
               ELSE IF ~inData(p1.data, p1.position) THEN panic(p1)
               ELSE LET eventByte == byteAt(p1.data, p1.position)
                        status    == IF eventByte >= 128 THEN eventByte ELSE p1.runningStatus
                        p2        == IF eventByte >= 128
                                     THEN [p1 EXCEPT !.position = @ + 1,
                                                     !.runningStatus = eventByte]
                                     ELSE p1
                        p3        == dispatch(p2, status)
                    IN IF p3.pc = "panic" THEN p3
                       ELSE IF p3.position >= Len(p3.data) THEN [p3 EXCEPT !.pc = "flush"]
                       ELSE p3

\* the loop test "for p.position < trackEnd" of parseTrack
loopTest(ps) ==
    IF ps.pc = "events" /\ ps.position >= ps.trackEnd THEN [ps EXCEPT !.pc = "flush"] ELSE ps

\* the orders in which a range over the map activeNotes may visit its keys
Orders(S) == {o \in [1 .. Cardinality(S) -> S] : \A i, j \in DOMAIN o : o[i] = o[j] => i = j}

\* the end of parseTrack and the append in ParseFile
finishTrack(ps, order) ==
    LET rest == [i \in DOMAIN order |->
                    [ps.activeNotes[order[i]] EXCEPT !.Duration = defaultDuration(ps)]]
    IN [ps EXCEPT !.position = ps.trackEnd,
                  !.notes = @ \o ps.trackNotes \o rest,
                  !.trackNotes = << >>,
                  !.activeNotes = << >>,
                  !.pc = "tracks"]

(* ---------------------------------------------------------------------- *)
(* MIDIProcessor.LoadMIDI                                                 *)
(* ---------------------------------------------------------------------- *)
MIDITrack(name, channel, instrument, notes) ==
    [Name |-> name, Channel |-> channel, Instrument |-> instrument, IsGuitar |-> TRUE,
     Notes |-> notes]

testTrack == MIDITrack("Guitar", 1, 25, createTestData)

\* parseMIDIFile after a successful ParseFile
guitarNotes(allNotes) == SelectSeq(allNotes, LAMBDA n : n.Pitch >= 40 /\ n.Pitch <= 84)

\* a chart file on disk
File(exists, readable, bytes) == [exists |-> exists, readable |-> readable, bytes |-> bytes]
NoFile == File(FALSE, FALSE, << >>)

NewMIDIProcessor(file) == [pc |-> "start", file |-> file, tracks |-> << >>, err |-> ""]

(* ---------------------------------------------------------------------- *)
(* Game.LoadMIDITrack: the chart-to-session adapter                       *)
(* ---------------------------------------------------------------------- *)
RECURSIVE earliestNoteTime(_, _, _)
earliestNoteTime(notes, i, acc) ==
    IF i > Len(notes) THEN acc
    ELSE earliestNoteTime(notes, i + 1,
                          IF notes[i].StartTime < acc THEN notes[i].StartTime ELSE acc)

adjustedStartTime(m, earliest) == m.StartTime - earliest + 2000

GameNote(m, earliest) ==
    LET start == adjustedStartTime(m, earliest)
        dur   == IF start + m.Duration > GAME_DURATION THEN GAME_DURATION - start ELSE m.Duration
    IN [StartTime |-> start, Duration |-> dur, Lane |-> m.Lane,
        IsActive |-> TRUE, IsHit |-> FALSE, HitAccuracy |-> Miss,
        IsPressed |-> FALSE, PressStartTime |-> 0, IsBeingHeld |-> FALSE,
        SustainProgress |-> 0]

\* SustainProgress holds the numerator of the source's float: the progress is
\* SustainProgress / Duration.  The fields Y, Width and Height are read by the
\* renderer only; Y is recomputed by updateNotes before its one use there.

LoadGameNotes(notes) ==
    LET earliest == earliestNoteTime(notes, 1, 999999000)
        kept     == SelectSeq(notes, LAMBDA m : ~(adjustedStartTime(m, earliest) > GAME_DURATION))
    IN [i \in 1 .. Len(kept) |-> GameNote(kept[i], earliest)]

AudioNote(m, earliest) ==
    LET start == adjustedStartTime(m, earliest)
    IN [m EXCEPT !.StartTime = start,
                 !.Duration = IF start + m.Duration > GAME_DURATION
                              THEN GAME_DURATION - start ELSE m.Duration]

LoadAudioNotes(notes) ==
    LET earliest == earliestNoteTime(notes, 1, 999999000)
        kept     == SelectSeq(notes, LAMBDA m : adjustedStartTime(m, earliest) <= GAME_DURATION)
    IN [i \in 1 .. Len(kept) |-> AudioNote(kept[i], earliest)]

(* ---------------------------------------------------------------------- *)
(* Scoring and judgment                                                   *)
(* ---------------------------------------------------------------------- *)
\* gs is the part of the Game struct the gameplay handlers write:
\* [gameNotes, score, combo, maxCombo, perfectHits, goodHits, okHits, missedHits]

\* mutant: the Perfect window excludes its bound
calculateAccuracy_Strict(timeDiff) ==
    LET absTimeDiff == IF timeDiff < 0 THEN -timeDiff ELSE timeDiff
    IN IF absTimeDiff < 50 THEN Perfect
       ELSE IF absTimeDiff <= 100 THEN Good
       ELSE IF absTimeDiff <= 150 THEN OK
       ELSE Miss

calculateAccuracy(timeDiff) ==
    LET absTimeDiff == IF timeDiff < 0 THEN -timeDiff ELSE timeDiff
    IN IF absTimeDiff <= 50 THEN Perfect
       ELSE IF absTimeDiff <= 100 THEN Good
       ELSE IF absTimeDiff <= 150 THEN OK
       ELSE Miss

\* mutant: a Miss leaves the combo as it is
addScore_MissKeepsCombo(gs, accuracy) ==
    LET a == CASE accuracy = Perfect ->
                    [gs EXCEPT !.score = @ + 100, !.combo = @ + 1, !.perfectHits = @ + 1]
               [] accuracy = Good ->
                    [gs EXCEPT !.score = @ + 75, !.combo = @ + 1, !.goodHits = @ + 1]
               [] accuracy = OK ->
                    [gs EXCEPT !.score = @ + 50, !.combo = @ + 1, !.okHits = @ + 1]
               [] OTHER ->
                    [gs EXCEPT !.missedHits = @ + 1]
        b == IF a.combo > a.maxCombo THEN [a EXCEPT !.maxCombo = a.combo] ELSE a
    IN IF b.combo > 10 THEN [b EXCEPT !.score = @ + (b.combo \div 10)] ELSE b

\* mutant: the combo bonus starts at a combo of 2
addScore_EarlyBonus(gs, accuracy) ==
    LET a == CASE accuracy = Perfect ->
                    [gs EXCEPT !.score = @ + 100, !.combo = @ + 1, !.perfectHits = @ + 1]
               [] accuracy = Good ->
                    [gs EXCEPT !.score = @ + 75, !.combo = @ + 1, !.goodHits = @ + 1]
               [] accuracy = OK ->
                    [gs EXCEPT !.score = @ + 50, !.combo = @ + 1, !.okHits = @ + 1]
               [] OTHER ->
                    [gs EXCEPT !.combo = 0, !.missedHits = @ + 1]
        b == IF a.combo > a.maxCombo THEN [a EXCEPT !.maxCombo = a.combo] ELSE a
    IN IF b.combo > 1 THEN [b EXCEPT !.score = @ + (b.combo \div 10) + 1] ELSE b

addScore(gs, accuracy) ==
    LET a == CASE accuracy = Perfect ->
                    [gs EXCEPT !.score = @ + 100, !.combo = @ + 1, !.perfectHits = @ + 1]
               [] accuracy = Good ->
                    [gs EXCEPT !.score = @ + 75, !.combo = @ + 1, !.goodHits = @ + 1]
               [] accuracy = OK ->
                    [gs EXCEPT !.score = @ + 50, !.combo = @ + 1, !.okHits = @ + 1]
               [] OTHER ->
                    [gs EXCEPT !.combo = 0, !.missedHits = @ + 1]
        b == IF a.combo > a.maxCombo THEN [a EXCEPT !.maxCombo = a.combo] ELSE a
    IN IF b.combo > 10 THEN [b EXCEPT !.score = @ + (b.combo \div 10)] ELSE b

\* mutant: a note of exactly 0.3 s counts as sustained
isSustainedNote_Inclusive(note) == note.Duration >= 300

isSustainedNote(note) == note.Duration > 300

\* the sustain bonus: int32(50 * SustainProgress) when SustainProgress > 0.8
sustainBonus(gs, note) ==
    IF 10 * note.SustainProgress > 8 * note.Duration
    THEN [gs EXCEPT !.score = @ + ((50 * note.SustainProgress) \div note.Duration)]
    ELSE gs

(* ---------------------------------------------------------------------- *)
(* Key press and key release                                              *)
(* ---------------------------------------------------------------------- *)
\* mutant: the press selects the note whose start is nearest to the clock
RECURSIVE findClosestNoteFrom_Nearest(_, _, _, _, _, _)
findClosestNoteFrom_Nearest(notes, laneIndex, t, i, minDistance, closest) ==
    IF i > Len(notes) THEN closest
    ELSE LET note     == notes[i]
             distance == note.StartTime - t
             near     == IF distance < 0 THEN -distance ELSE distance
         IN IF ~note.IsActive \/ note.IsHit \/ note.IsPressed \/ note.Lane # laneIndex
            THEN findClosestNoteFrom_Nearest(notes, laneIndex, t, i + 1, minDistance, closest)
            ELSE IF near < minDistance /\ distance > -200
                 THEN findClosestNoteFrom_Nearest(notes, laneIndex, t, i + 1, near, i)
                 ELSE findClosestNoteFrom_Nearest(notes, laneIndex, t, i + 1, minDistance, closest)

\* index of the selected note, 0 for nil
RECURSIVE findClosestNoteFrom(_, _, _, _, _, _)
findClosestNoteFrom(notes, laneIndex, t, i, minDistance, closest) ==
    IF i > Len(notes) THEN closest
    ELSE LET note     == notes[i]
             distance == note.StartTime - t
         IN IF ~note.IsActive \/ note.IsHit \/ note.IsPressed \/ note.Lane # laneIndex
            THEN findClosestNoteFrom(notes, laneIndex, t, i + 1, minDistance, closest)
            ELSE IF distance < minDistance /\ distance > -200
                 THEN findClosestNoteFrom(notes, laneIndex, t, i + 1, distance, i)
                 ELSE findClosestNoteFrom(notes, laneIndex, t, i + 1, minDistance, closest)

findClosestNote(gs, laneIndex, t) ==
    findClosestNoteFrom(gs.gameNotes, laneIndex, t, 1, 1000000000, 0)

\* mutant: a press judged Miss resolves the selected note as Miss
handleKeyPress_MissResolves(gs, laneIndex, t) ==
    LET c == findClosestNote(gs, laneIndex, t)
    IN IF c = 0 THEN gs
       ELSE LET note     == gs.gameNotes[c]
                accuracy == calculateAccuracy(t - note.StartTime)
            IN IF accuracy = Miss
               THEN addScore([gs EXCEPT !.gameNotes[c].IsHit = TRUE,
                                        !.gameNotes[c].HitAccuracy = Miss],
                             Miss)
               ELSE IF isSustainedNote(note)
                    THEN [gs EXCEPT !.gameNotes[c].IsPressed = TRUE,
                                    !.gameNotes[c].PressStartTime = t,
                                    !.gameNotes[c].IsBeingHeld = TRUE,
                                    !.gameNotes[c].HitAccuracy = accuracy]
                    ELSE addScore([gs EXCEPT !.gameNotes[c].IsHit = TRUE,
                                             !.gameNotes[c].HitAccuracy = accuracy],
                                  accuracy)

handleKeyPress(gs, laneIndex, t) ==
    LET c == findClosestNote(gs, laneIndex, t)
    IN IF c = 0 THEN gs
       ELSE LET note     == gs.gameNotes[c]
                accuracy == calculateAccuracy(t - note.StartTime)
            IN IF accuracy = Miss THEN gs
               ELSE IF isSustainedNote(note)
                    THEN [gs EXCEPT !.gameNotes[c].IsPressed = TRUE,
                                    !.gameNotes[c].PressStartTime = t,
                                    !.gameNotes[c].IsBeingHeld = TRUE,
                                    !.gameNotes[c].HitAccuracy = accuracy]
                    ELSE addScore([gs EXCEPT !.gameNotes[c].IsHit = TRUE,
                                             !.gameNotes[c].HitAccuracy = accuracy],
                                  accuracy)

\* mutant: a poor release does not lower the start judgment
RECURSIVE handleKeyReleaseFrom_NoDowngrade(_, _, _, _)
handleKeyReleaseFrom_NoDowngrade(gs, laneIndex, t, i) ==
    IF i > Len(gs.gameNotes) THEN gs
    ELSE LET note == gs.gameNotes[i]
         IN IF ~note.IsActive \/ note.Lane # laneIndex \/ ~note.IsPressed \/ note.IsHit
            THEN handleKeyReleaseFrom_NoDowngrade(gs, laneIndex, t, i + 1)
            ELSE LET done == [gs EXCEPT !.gameNotes[i].IsPressed = FALSE,
                                        !.gameNotes[i].IsBeingHeld = FALSE,
                                        !.gameNotes[i].IsHit = TRUE]
                 IN sustainBonus(addScore(done, note.HitAccuracy), note)

RECURSIVE handleKeyReleaseFrom(_, _, _, _)
handleKeyReleaseFrom(gs, laneIndex, t, i) ==
    IF i > Len(gs.gameNotes) THEN gs
    ELSE LET note == gs.gameNotes[i]
         IN IF ~note.IsActive \/ note.Lane # laneIndex \/ ~note.IsPressed \/ note.IsHit
            THEN handleKeyReleaseFrom(gs, laneIndex, t, i + 1)
            ELSE LET noteEndTime     == note.StartTime + note.Duration
                     releaseAccuracy == calculateAccuracy(t - noteEndTime)
                     finalAccuracy   ==
                         IF releaseAccuracy = Miss
                         THEN (IF note.HitAccuracy = Perfect THEN Good
                               ELSE IF note.HitAccuracy = Good THEN OK
                               ELSE note.HitAccuracy)
                         ELSE note.HitAccuracy
                     done == [gs EXCEPT !.gameNotes[i].IsPressed = FALSE,
                                        !.gameNotes[i].IsBeingHeld = FALSE,
                                        !.gameNotes[i].IsHit = TRUE]
                 IN sustainBonus(addScore(done, finalAccuracy), note)

handleKeyRelease(gs, laneIndex, t) == handleKeyReleaseFrom(gs, laneIndex, t, 1)

(* ---------------------------------------------------------------------- *)
(* The per-frame passes of Game.Update                                    *)
(* ---------------------------------------------------------------------- *)
\* rl.IsKeyPressed / rl.IsKeyReleased compare the key state of this frame
\* (down) with the key state of the previous frame (prev).
RECURSIVE updateInputFrom(_, _, _, _, _)
updateInputFrom(gs, prev, down, t, i) ==
    IF i > 2 THEN gs
    ELSE LET a == IF down[i] /\ ~prev[i] THEN handleKeyPress(gs, i, t) ELSE gs
             b == IF ~down[i] /\ prev[i] THEN handleKeyRelease(a, i, t) ELSE a
         IN updateInputFrom(b, prev, down, t, i + 1)

updateInput(gs, prev, down, t) == updateInputFrom(gs, prev, down, t, 0)

noteY(note, t) == HIT_LINE_Y - (((note.StartTime - t) * NOTE_SPEED) \div 1000)

updateNote(note, t) ==
    IF ~note.IsActive THEN note
    ELSE [note EXCEPT !.IsActive = ~(noteY(note, t) > SCREEN_HEIGHT + 50)]

updateNotes(gs, t) ==
    [gs EXCEPT !.gameNotes = [i \in 1 .. Len(gs.gameNotes) |-> updateNote(gs.gameNotes[i], t)]]

clamp(x, lo, hi) == IF x < lo THEN lo ELSE IF x > hi THEN hi ELSE x

RECURSIVE updateSustainedNotesFrom(_, _, _, _)
updateSustainedNotesFrom(gs, lanes, t, i) ==
    IF i > Len(gs.gameNotes) THEN gs
    ELSE LET note == gs.gameNotes[i]
         IN IF ~note.IsActive \/ ~note.IsPressed \/ note.IsHit
            THEN updateSustainedNotesFrom(gs, lanes, t, i + 1)
            ELSE IF lanes[note.Lane]
            THEN LET held == [note EXCEPT !.SustainProgress = clamp(t - note.StartTime, 0, note.Duration),
                                          !.IsBeingHeld = TRUE]
                     g1   == [gs EXCEPT !.gameNotes[i] = held]
                 IN IF t >= note.StartTime + note.Duration
                    THEN updateSustainedNotesFrom(
                             sustainBonus(
                                 addScore([g1 EXCEPT !.gameNotes[i].IsPressed = FALSE,
                                                     !.gameNotes[i].IsBeingHeld = FALSE,
                                                     !.gameNotes[i].IsHit = TRUE],
                                          held.HitAccuracy),
                                 held),
                             lanes, t, i + 1)
                    ELSE updateSustainedNotesFrom(g1, lanes, t, i + 1)
            ELSE updateSustainedNotesFrom(
                     addScore([gs EXCEPT !.gameNotes[i].IsPressed = FALSE,
                                         !.gameNotes[i].IsBeingHeld = FALSE,
                                         !.gameNotes[i].IsHit = TRUE,
                                         !.gameNotes[i].HitAccuracy = Miss],
                              Miss),
                     lanes, t, i + 1)

updateSustainedNotes(gs, lanes, t) == updateSustainedNotesFrom(gs, lanes, t, 1)

\* mutant: the sweep waits 0.3 s after the start of a note
RECURSIVE checkMissedNotesFrom_Late(_, _, _)
checkMissedNotesFrom_Late(gs, t, i) ==
    IF i > Len(gs.gameNotes) THEN gs
    ELSE LET note == gs.gameNotes[i]
         IN IF ~note.IsActive \/ note.IsHit
            THEN checkMissedNotesFrom_Late(gs, t, i + 1)
            ELSE IF t > note.StartTime + 300
                 THEN checkMissedNotesFrom_Late(
                          addScore([gs EXCEPT !.gameNotes[i].IsHit = TRUE,
                                              !.gameNotes[i].HitAccuracy = Miss],
                                   Miss),
                          t, i + 1)
                 ELSE checkMissedNotesFrom_Late(gs, t, i + 1)

\* mutant: the sweep does not skip the notes that are already resolved
RECURSIVE checkMissedNotesFrom_Rehit(_, _, _)
checkMissedNotesFrom_Rehit(gs, t, i) ==
    IF i > Len(gs.gameNotes) THEN gs
    ELSE LET note == gs.gameNotes[i]
         IN IF ~note.IsActive
            THEN checkMissedNotesFrom_Rehit(gs, t, i + 1)
            ELSE IF t > note.StartTime + 200
                 THEN checkMissedNotesFrom_Rehit(
                          addScore([gs EXCEPT !.gameNotes[i].IsHit = TRUE,
                                              !.gameNotes[i].HitAccuracy = Miss],
                                   Miss),
                          t, i + 1)
                 ELSE checkMissedNotesFrom_Rehit(gs, t, i + 1)

RECURSIVE checkMissedNotesFrom(_, _, _)
checkMissedNotesFrom(gs, t, i) ==
    IF i > Len(gs.gameNotes) THEN gs
    ELSE LET note == gs.gameNotes[i]
         IN IF ~note.IsActive \/ note.IsHit
            THEN checkMissedNotesFrom(gs, t, i + 1)
            ELSE IF t > note.StartTime + 200
                 THEN checkMissedNotesFrom(
                          addScore([gs EXCEPT !.gameNotes[i].IsHit = TRUE,
                                              !.gameNotes[i].HitAccuracy = Miss],
                                   Miss),
                          t, i + 1)
                 ELSE checkMissedNotesFrom(gs, t, i + 1)

checkMissedNotes(gs, t) == checkMissedNotesFrom(gs, t, 1)

processedNotes(gs) == gs.perfectHits + gs.goodHits + gs.okHits + gs.missedHits

\* mutant: the session ends only after more notes than there are
checkAllNotesProcessed_Strict(gs, total) == processedNotes(gs) > total

\* TRUE when checkAllNotesProcessed calls EndGame
checkAllNotesProcessed(gs, total) == processedNotes(gs) >= total

\* the passes of one Update after the clock check, in the order of the source
Frame(gs, prev, down, t) ==
    checkMissedNotes(updateSustainedNotes(updateNotes(updateInput(gs, prev, down, t), t), down, t), t)

(* ---------------------------------------------------------------------- *)
(* AudioManager                                                           *)
(* ---------------------------------------------------------------------- *)
\* am = [isInitialized, isPlaying, currentTime, loaded, notes, sinceStart,
\*       currentSample]: loaded says musicStream is not nil, notes is
\* musicStream.notes, sinceStart is time.Since(startTime), -1 while startTime
\* is the zero time.
NewAudioManager(initOk) ==
    [isInitialized |-> initOk, isPlaying |-> FALSE, currentTime |-> 0,
     loaded |-> FALSE, notes |-> << >>, sinceStart |-> -1, currentSample |-> 0]

AudioLoadMIDITrack(a, notes) ==
    IF ~a.isInitialized THEN a
    ELSE [a EXCEPT !.loaded = TRUE, !.notes = notes]

StartPlayback(a) ==
    IF ~a.isInitialized \/ ~a.loaded THEN a
    ELSE IF a.isPlaying THEN a
    ELSE [a EXCEPT !.sinceStart = 0, !.currentSample = 0, !.isPlaying = TRUE]

\* mutant: stopping leaves the stream playing
StopPlayback_Keep(a) == a

\* mutant: stopping flips the playing flag
StopPlayback_Toggle(a) == [a EXCEPT !.isPlaying = ~@]

\* mutant: stopping the playback releases the stream's notes
StopPlayback_Release(a) ==
    IF a.isPlaying THEN [a EXCEPT !.isPlaying = FALSE, !.notes = << >>] ELSE a

StopPlayback(a) ==
    IF a.isPlaying THEN [a EXCEPT !.isPlaying = FALSE] ELSE a

AudioUpdate(a) ==
    IF a.isPlaying /\ a.sinceStart >= 0 THEN [a EXCEPT !.currentTime = a.sinceStart] ELSE a

\* the buffer the speaker pulls: sampleRate.N(time.Second/20) frames
BufferFrames == 2205

\* the notes sounding at time t: StartTime <= t < StartTime + Duration
activeNotes(notes, t) ==
    {i \in 1 .. Len(notes) : t >= notes[i].StartTime /\ t < notes[i].StartTime + notes[i].Duration}

\* synthesizeAtTime: the divisor applied to the sample of each note at sample
\* time t, 0 for a note that is silent.  activeNoteCount is the running count
\* of the loop; the 440 Hz test tone of the first 2 s counts as one.  The
\* sample of a sounding note is 0.2 * envelope * sin(phase) / divisor.
RECURSIVE synthesizeFrom(_, _, _, _, _)
synthesizeFrom(notes, t, i, activeNoteCount, divisors) ==
    IF i > Len(notes) THEN divisors
    ELSE IF t >= notes[i].StartTime /\ t < notes[i].StartTime + notes[i].Duration
         THEN synthesizeFrom(notes, t, i + 1, activeNoteCount + 1,
                             Append(divisors, activeNoteCount + 1))
         ELSE synthesizeFrom(notes, t, i + 1, activeNoteCount, Append(divisors, 0))

synthesizeAtTime(notes, t) ==
    synthesizeFrom(notes, t, 1, IF t >= 0 /\ t < 2000 THEN 1 ELSE 0, << >>)

\* MIDIAudioStreamer.Stream: what one pull reads of the streamer, and the
\* divisors of its first sample
StreamRead(a) ==
    [notes |-> a.notes, active |-> activeNotes(a.notes, a.sinceStart),
     divisors |-> synthesizeAtTime(a.notes, a.sinceStart)]

\* wall-clock time dt passes
AudioElapse(a, dt) ==
    IF a.sinceStart >= 0 THEN [a EXCEPT !.sinceStart = @ + dt] ELSE a

(* ---------------------------------------------------------------------- *)
(* State                                                                  *)
(* ---------------------------------------------------------------------- *)
VARIABLES
    guitarTrack,     \* midiProcessor.guitarTrack.Notes
    gameNotes,       \* Game.gameNotes
    score, combo, maxCombo,
    perfectHits, goodHits, okHits, missedHits, totalNotes,
    state,           \* Game.state
    currentTime,     \* Game.currentTime
    songDuration,    \* Game.songDuration
    lanes,           \* Game.lanes[i].IsPressed
    sinceGameStart,  \* time.Since(Game.gameStartTime)
    keyDown,         \* the key state raylib recorded for the previous frame
    am,              \* Game.audioManager
    streamed,        \* the notes the last Stream pull synthesized from
    parser,          \* the SimpleMIDIParser of parseMIDIFile and the locals of parseTrack
    mp               \* the MIDIProcessor: the chart file, its tracks, LoadMIDI's position

gameVars == << gameNotes, score, combo, maxCombo, perfectHits, goodHits, okHits, missedHits >>

sessionVars == << guitarTrack, gameNotes, score, combo, maxCombo, perfectHits, goodHits,
                  okHits, missedHits, totalNotes, state, currentTime, songDuration, lanes,
                  sinceGameStart, keyDown, am, streamed >>

loadVars == << parser, mp >>

vars == << sessionVars, loadVars >>

GS == [gameNotes |-> gameNotes, score |-> score, combo |-> combo, maxCombo |-> maxCombo,
       perfectHits |-> perfectHits, goodHits |-> goodHits, okHits |-> okHits,
       missedHits |-> missedHits]

SetGS(gs) ==
    /\ gameNotes' = gs.gameNotes
    /\ score' = gs.score
    /\ combo' = gs.combo
    /\ maxCombo' = gs.maxCombo
    /\ perfectHits' = gs.perfectHits
    /\ goodHits' = gs.goodHits
    /\ okHits' = gs.okHits
    /\ missedHits' = gs.missedHits

\* NewGame followed by Game.LoadMIDITrack, as main runs them
InitGame(chart, initOk) ==
    /\ guitarTrack = assignLanes(chart)
    /\ gameNotes = LoadGameNotes(guitarTrack)
    /\ score = 0 /\ combo = 0 /\ maxCombo = 0
    /\ perfectHits = 0 /\ goodHits = 0 /\ okHits = 0 /\ missedHits = 0
    /\ totalNotes = Len(gameNotes)
    /\ state = StateMenu
    /\ currentTime = 0
    /\ songDuration = GAME_DURATION
    /\ lanes = [i \in LaneIdx |-> FALSE]
    /\ sinceGameStart = 0
    /\ keyDown = [i \in LaneIdx |-> FALSE]
    /\ am = AudioLoadMIDITrack(NewAudioManager(initOk), LoadAudioNotes(guitarTrack))
    /\ streamed = << >>

\* LoadMIDI has returned with the chart as the notes of its one track
Loaded(chart) ==
    /\ parser = [NewSimpleMIDIParser EXCEPT !.pc = "done"]
    /\ mp = [NewMIDIProcessor(NoFile) EXCEPT !.pc = "returned",
                                            !.tracks = << MIDITrack("Guitar", 0, 25, chart) >>]

Init == \E chart \in Charts, initOk \in BOOLEAN : InitGame(chart, initOk) /\ Loaded(chart)

InitSession == \E chart \in SessionCharts : InitGame(chart, TRUE) /\ Loaded(chart)

(* ---------------------------------------------------------------------- *)
(* Actions                                                                *)
(* ---------------------------------------------------------------------- *)
resetNote(note) == [note EXCEPT !.IsActive = TRUE, !.IsHit = FALSE]

\* mutant: the game starts only when the audio was initialised
StartGame_NeedsAudio ==
    /\ state = StateMenu
    /\ am.isInitialized
    /\ state' = StatePlaying
    /\ sinceGameStart' = 0
    /\ currentTime' = 0
    /\ score' = 0 /\ combo' = 0 /\ maxCombo' = 0
    /\ perfectHits' = 0 /\ goodHits' = 0 /\ okHits' = 0 /\ missedHits' = 0
    /\ gameNotes' = [i \in 1 .. Len(gameNotes) |-> resetNote(gameNotes[i])]
    /\ am' = StartPlayback(am)
    /\ UNCHANGED << guitarTrack, totalNotes, songDuration, lanes, keyDown, streamed, loadVars >>

\* main: space pressed in the menu
StartGame ==
    /\ state = StateMenu
    /\ state' = StatePlaying
    /\ sinceGameStart' = 0
    /\ currentTime' = 0
    /\ score' = 0 /\ combo' = 0 /\ maxCombo' = 0
    /\ perfectHits' = 0 /\ goodHits' = 0 /\ okHits' = 0 /\ missedHits' = 0
    /\ gameNotes' = [i \in 1 .. Len(gameNotes) |-> resetNote(gameNotes[i])]
    /\ am' = StartPlayback(am)
    /\ UNCHANGED << guitarTrack, totalNotes, songDuration, lanes, keyDown, streamed, loadVars >>

\* mutant: space on the game-over screen starts the next session at once
ReturnToMenu_Restart ==
    /\ state = StateGameOver
    /\ state' = StatePlaying
    /\ UNCHANGED << guitarTrack, gameVars, totalNotes, currentTime, songDuration, lanes,
                    sinceGameStart, keyDown, am, streamed, loadVars >>

\* main: space pressed on the game-over screen
ReturnToMenu ==
    /\ state = StateGameOver
    /\ state' = StateMenu
    /\ UNCHANGED << guitarTrack, gameVars, totalNotes, currentTime, songDuration, lanes,
                    sinceGameStart, keyDown, am, streamed, loadVars >>

\* One frame of the main loop: the wall clock has reached t since StartGame,
\* the keys are in state down, and Game.Update runs.
UpdateAt(t, down) ==
    /\ keyDown' = down
    /\ UNCHANGED << guitarTrack, totalNotes, songDuration, streamed, loadVars >>
    /\ IF state # StatePlaying
       THEN UNCHANGED << gameVars, state, currentTime, lanes, sinceGameStart, am >>
       ELSE LET a1 == AudioUpdate(AudioElapse(am, t - sinceGameStart))
                gs == Frame(GS, keyDown, down, t)
            IN /\ sinceGameStart' = t
               /\ currentTime' = t
               /\ IF t > songDuration
                  THEN /\ state' = StateGameOver
                       /\ am' = StopPlayback(a1)
                       /\ UNCHANGED << gameVars, lanes >>
                  ELSE /\ SetGS(gs)
                       /\ lanes' = down
                       /\ IF checkAllNotesProcessed(gs, totalNotes)
                          THEN state' = StateGameOver /\ am' = StopPlayback(a1)
                          ELSE state' = state /\ am' = a1

\* a frame at one of the instants the frame gaps allow
Update(t, down) ==
    /\ t \in (IF state = StatePlaying THEN NextInstants(gameNotes, sinceGameStart) ELSE {0})
    /\ UpdateAt(t, down)

\* The speaker pulls a buffer from the stream it plays (between speaker.Play
\* in StartPlayback and speaker.Clear in StopPlayback).
Stream ==
    /\ am.isPlaying
    /\ am.currentSample < MaxPulls * BufferFrames
    /\ IF am.sinceStart < 0
       THEN UNCHANGED << am, streamed >>
       ELSE /\ streamed' = StreamRead(am)
            /\ am' = [am EXCEPT !.currentSample = @ + BufferFrames]
    /\ UNCHANGED << guitarTrack, gameVars, totalNotes, state, currentTime, songDuration, lanes,
                    sinceGameStart, keyDown, loadVars >>

Next ==
    \/ StartGame
    \/ ReturnToMenu
    \/ \E t \in {0} \cup NextInstants(gameNotes, sinceGameStart), down \in KeyStates(gameNotes) : Update(t, down)

Spec == Init /\ [][Next]_vars

\* one session, never restarted
NextSession ==
    \/ StartGame
    \/ \E t \in {0} \cup NextInstants(gameNotes, sinceGameStart), down \in KeyStates(gameNotes) : Update(t, down)

SpecSession == InitSession /\ [][NextSession]_vars

\* one session on each chart of the adapter runs, played without a key press
InitAdapt == \E chart \in AdapterCharts : InitGame(chart, TRUE) /\ Loaded(chart)

NextAdapt ==
    \/ StartGame
    \/ \E t \in {0} \cup NextInstants(gameNotes, sinceGameStart) :
          Update(t, [i \in LaneIdx |-> FALSE])

SpecAdapt == InitAdapt /\ [][NextAdapt]_vars

\* restartable sessions on a chart with two sustained notes in one lane, the
\* frames of a session MaxFrame * 50 ms apart
InitReplay == InitGame(TwoLong, TRUE) /\ Loaded(TwoLong)

NextReplay ==
    \/ StartGame
    \/ ReturnToMenu
    \/ \E t \in {0, FirstInstant(gameNotes, sinceGameStart + 50 * MaxFrame)},
          down \in KeyStates(gameNotes) : Update(t, down)

SpecReplay == InitReplay /\ [][NextReplay]_vars

\* one session on a chart with short and sustained notes whose frames are
\* never more than 0.5 s apart where a note is near
SteadyCharts == {ShortLong, FiveWithLong}
SteadyGaps == {50 * k : k \in 1 .. MaxFrame} \cup {MaxGap}

InitSteady == \E chart \in SteadyCharts : InitGame(chart, TRUE) /\ Loaded(chart)

NextSteady ==
    \/ StartGame
    \/ \E t \in (IF state = StatePlaying
                 THEN {FirstInstant(gameNotes, sinceGameStart + gap) : gap \in SteadyGaps}
                 ELSE {0}),
          down \in KeyStates(gameNotes) : UpdateAt(t, down)

SpecSteady == InitSteady /\ [][NextSteady]_vars

\* restartable sessions with the audio pulls interleaved
InitAudio ==
    \E chart \in AudioCharts, initOk \in BOOLEAN : InitGame(chart, initOk) /\ Loaded(chart)

NextAudio ==
    \/ Next
    \/ Stream

SpecAudio == InitAudio /\ [][NextAudio]_vars

(* ---------------------------------------------------------------------- *)
(* Chart files                                                            *)
(* ---------------------------------------------------------------------- *)
Divisions == {96, 480}
Tempos    == {500000, 250000}
TickPairs == {<< 0, 96 >>, << 48, 240 >>, << 200, 400 >>}

RECURSIVE vlqHigh(_)
vlqHigh(n) == IF n < 128 THEN << n + 128 >> ELSE vlqHigh(n \div 128) \o << (n % 128) + 128 >>
VLQ(n) == IF n < 128 THEN << n >> ELSE vlqHigh(n \div 128) \o << n % 128 >>

U16(n) == << n \div 256, n % 256 >>
U32(n) == << 0, 0 >> \o U16(n)

Hdr(T)     == MThd \o U32(6) \o U16(1) \o U16(1) \o U16(T)
Trk(body)  == MTrk \o U32(Len(body)) \o body
NoteOn(delta, pitch, velocity) == VLQ(delta) \o << 144, pitch, velocity >>
NoteOff(delta, pitch)          == VLQ(delta) \o << 128, pitch, 64 >>
SetTempo(delta, M) == VLQ(delta) \o << 255, 81, 3, M \div 65536, (M \div 256) % 256, M % 256 >>
EndOfTrack == << 0, 255, 47, 0 >>
Cut(bytes, k) == SubSeq(bytes, 1, Len(bytes) - k)

\* one Note-On/Note-Off pair at ticks a and b
Pair(a, b) == NoteOn(a, 60, 90) \o NoteOff(b - a, 60)

\* division T, tempo M set in the track, one pair
MinimalChart(T, M, a, b) == Hdr(T) \o Trk(SetTempo(0, M) \o Pair(a, b))
\* the same without the tempo event
PlainChart(T, a, b) == Hdr(T) \o Trk(Pair(a, b))

MinimalCharts ==
    {MinimalChart(T, ab[3], ab[1], ab[2]) :
        T \in Divisions, ab \in {<< x[1], x[2], M >> : x \in TickPairs, M \in Tempos}}
PlainCharts == {PlainChart(T, ab[1], ab[2]) : T \in Divisions, ab \in TickPairs}

HeaderOnly      == Hdr(96)
EmptyFile       == << >>
ShortHeader     == Cut(Hdr(96), 1)
BadSignature    == << 82, 73, 70, 70 >> \o SubSeq(Hdr(96), 5, 14)
BadChunk        == << 77, 84, 114, 88 >> \o U32(4) \o NoteOn(0, 60, 90)
BadTrack        == Hdr(96) \o BadChunk
GoodThenBad     == PlainChart(96, 0, 96) \o BadChunk
ShortTrackHdr   == PlainChart(96, 0, 96) \o Cut(Trk(<< >>), 2)
TruncatedCharts == {Cut(PlainChart(96, 0, 96), k) : k \in 1 .. MaxCut}
RunningStatus   == Hdr(96) \o Trk(NoteOn(0, 60, 90) \o << 96, 60, 0 >> \o EndOfTrack)
TwoOpen         == Hdr(96) \o Trk(NoteOn(0, 60, 90) \o NoteOn(48, 64, 80))
OtherEvents     == Hdr(96) \o Trk(<< 0, 192, 25, 0, 176, 7, 100 >> \o Pair(0, 96) \o EndOfTrack)
TwoTracks       == Hdr(96) \o Trk(Pair(0, 96)) \o Trk(NoteOn(0, 30, 90) \o NoteOff(48, 30))
EmptyTrack      == Hdr(96) \o Trk(<< >>)
\* delta times of 1, 2, 2 and 4 bytes: 127, 128, 16383 and FF FF FF FF, the
\* last two before program changes
DeltaChart      ==
    Hdr(96) \o Trk(NoteOn(127, 60, 90) \o NoteOff(128, 60) \o VLQ(16383) \o << 192, 25 >>
                      \o << 255, 255, 255, 255, 192, 25 >>)

\* a pitch that is struck again while it is open, and a note left open in
\* the first of two tracks
Reopened        == Hdr(96) \o Trk(NoteOn(0, 60, 90) \o NoteOn(48, 60, 80))
OpenThenTrack   == Hdr(96) \o Trk(NoteOn(0, 60, 90)) \o Trk(NoteOff(48, 60) \o Pair(96, 192))

ChartBytes ==
    MinimalCharts \cup PlainCharts \cup TruncatedCharts
        \cup {HeaderOnly, EmptyFile, ShortHeader, BadSignature, BadTrack, GoodThenBad,
              ShortTrackHdr, RunningStatus, TwoOpen, OtherEvents, TwoTracks, EmptyTrack,
              DeltaChart, Reopened, OpenThenTrack}

Files ==
    {File(TRUE, TRUE, bytes) : bytes \in ChartBytes}
        \cup {NoFile, File(TRUE, FALSE, << >>)}

(* ---------------------------------------------------------------------- *)
(* Loading a chart                                                        *)
(* ---------------------------------------------------------------------- *)
\* the game is built after the chart is loaded; until then its variables
\* hold the values of a game without notes
InitParse ==
    /\ \E file \in Files : mp = NewMIDIProcessor(file)
    /\ parser = NewSimpleMIDIParser
    /\ InitGame(<< >>, FALSE)

\* LoadMIDI up to the call of parseMIDIFile
LoadMIDI ==
    /\ mp.pc = "start"
    /\ mp' = IF mp.file.exists
             THEN [mp EXCEPT !.pc = "parsing"]
             ELSE [mp EXCEPT !.pc = "returned", !.err = "MIDI file not found"]
    /\ parser' = NewSimpleMIDIParser
    /\ UNCHANGED sessionVars

\* ParseFile up to the track loop
ParseFile ==
    /\ mp.pc = "parsing" /\ parser.pc = "new"
    /\ parser' =
          IF ~mp.file.readable
          THEN [parser EXCEPT !.pc = "failed", !.err = "failed to read file"]
          ELSE LET h == parseHeader([parser EXCEPT !.data = mp.file.bytes, !.position = 0])
               IN IF h.err # "" THEN [h EXCEPT !.pc = "failed"] ELSE [h EXCEPT !.pc = "tracks"]
    /\ UNCHANGED << sessionVars, mp >>

\* ParseFile: the track loop enters parseTrack; an error of parseTrack is
\* printed as a warning and the loop is left
ParseTrack ==
    /\ parser.pc = "tracks" /\ parser.position < Len(parser.data)
    /\ parser' =
          LET h == parseTrackHeader(parser)
          IN IF h.err # ""
             THEN [h EXCEPT !.warning = h.err, !.err = "", !.pc = "done"]
             ELSE loopTest([h EXCEPT !.pc = "events"])
    /\ UNCHANGED << sessionVars, mp >>

\* parseTrack: one event
ParseEvent ==
    /\ parser.pc = "events"
    /\ parser' = loopTest(parseEvent(parser))
    /\ UNCHANGED << sessionVars, mp >>

\* parseTrack: the notes left open, and the return to ParseFile
FinishTrack ==
    /\ parser.pc = "flush"
    /\ \E order \in Orders(DOMAIN parser.activeNotes) : parser' = finishTrack(parser, order)
    /\ UNCHANGED << sessionVars, mp >>

\* ParseFile: the end of the data
ParseReturn ==
    /\ parser.pc = "tracks" /\ parser.position >= Len(parser.data)
    /\ parser' = [parser EXCEPT !.pc = "done"]
    /\ UNCHANGED << sessionVars, mp >>

\* parseMIDIFile after ParseFile, and the rest of LoadMIDI
LoadMIDIReturn ==
    /\ mp.pc = "parsing" /\ parser.pc \in {"done", "failed"}
    /\ mp' = IF parser.pc = "failed"
             THEN [mp EXCEPT !.pc = "returned", !.tracks = Append(@, testTrack)]
             ELSE [mp EXCEPT !.pc = "returned",
                             !.tracks = << MIDITrack("Guitar", 0, 25,
                                                     guitarNotes(parser.notes)) >>]
    /\ UNCHANGED << sessionVars, parser >>

NextParse ==
    \/ LoadMIDI
    \/ ParseFile
    \/ ParseTrack
    \/ ParseEvent
    \/ FinishTrack
    \/ ParseReturn
    \/ LoadMIDIReturn

SpecParse == InitParse /\ [][NextParse]_vars

(* ---------------------------------------------------------------------- *)
(* Scoring runs                                                           *)
(* ---------------------------------------------------------------------- *)
\* addScore and the sustain bonus as the handlers apply them, from the stats
\* of a new session: any sequence of at most MaxResolutions resolutions.
Judgments == {Miss, OK, Good, Perfect}

\* Duration and SustainProgress of the sustained note that is completed:
\* held for 0.8 and for 0.9 of its duration
HeldNotes == {[Duration |-> 400, SustainProgress |-> p] : p \in {320, 360}}

resolutions == perfectHits + goodHits + okHits + missedHits

InitScore == InitGame(<< >>, FALSE) /\ Loaded(<< >>)

\* a resolution that calls addScore alone: a press on a short note, a
\* sustained note released too early, a note swept as missed
Resolve(accuracy) ==
    /\ resolutions < MaxResolutions
    /\ SetGS(addScore(GS, accuracy))
    /\ UNCHANGED << guitarTrack, totalNotes, state, currentTime, songDuration, lanes,
                    sinceGameStart, keyDown, am, streamed, loadVars >>

\* the completion of a sustained note by its release or at its end:
\* addScore, then the sustain bonus
ResolveSustained(accuracy, note) ==
    /\ resolutions < MaxResolutions
    /\ SetGS(sustainBonus(addScore(GS, accuracy), note))
    /\ UNCHANGED << guitarTrack, totalNotes, state, currentTime, songDuration, lanes,
                    sinceGameStart, keyDown, am, streamed, loadVars >>

NextScore ==
    \/ \E accuracy \in Judgments : Resolve(accuracy)
    \/ \E accuracy \in Judgments \ {Miss}, note \in HeldNotes : ResolveSustained(accuracy, note)

SpecScore == InitScore /\ [][NextScore]_vars

(* ---------------------------------------------------------------------- *)
(* Properties                                                             *)
(* ---------------------------------------------------------------------- *)
NoteIdx == 1 .. Len(gameNotes)
noteEnd(note) == note.StartTime + note.Duration
resolvedCount == perfectHits + goodHits + okHits + missedHits
HitSet(notes) == {i \in 1 .. Len(notes) : notes[i].IsHit}
statsOf(gs) == << gs.score, gs.combo, gs.maxCombo, gs.perfectHits, gs.goodHits, gs.okHits,
                  gs.missedHits >>
stats == << score, combo, maxCombo, perfectHits, goodHits, okHits, missedHits >>

\* note i was pressed at exactly its start time with judgment Perfect and is
\* still open
HeldFromStart(i) ==
    /\ isSustainedNote(gameNotes[i])
    /\ gameNotes[i].IsActive /\ gameNotes[i].IsPressed /\ ~gameNotes[i].IsHit
    /\ gameNotes[i].PressStartTime = gameNotes[i].StartTime
    /\ gameNotes[i].HitAccuracy = Perfect

\* C1: a sustained note pressed at its start time (Perfect) whose lane stays
\* pressed stays unresolved in every update before its end time, and the
\* update in which the clock reaches its end resolves it as Perfect once:
\* perfectHits + 1, combo + 1 and 100 + 50 points (no other note being
\* resolved in that update).
C1_HeldNotePerfectOnce ==
    [][\A i \in NoteIdx :
          (/\ state = StatePlaying
           /\ HeldFromStart(i)
           /\ lanes'[gameNotes[i].Lane]
           /\ currentTime' <= songDuration
           /\ \A j \in NoteIdx \ {i} : gameNotes'[j].IsHit = gameNotes[j].IsHit)
          => IF currentTime' < noteEnd(gameNotes[i])
             THEN ~gameNotes'[i].IsHit /\ stats' = stats
             ELSE /\ gameNotes'[i].IsHit
                  /\ gameNotes'[i].HitAccuracy = Perfect
                  /\ perfectHits' = perfectHits + 1
                  /\ combo' = combo + 1
                  /\ score' = score + 150
                  /\ missedHits' = missedHits]_vars

\* C2: within a session a resolved note stays resolved with the same
\* judgment, every step resolves as many notes as it adds to the counters,
\* and a step that resolves no note changes no stat.
C2_ResolvedOnce ==
    [][state = StatePlaying =>
          /\ \A i \in NoteIdx :
                gameNotes[i].IsHit =>
                    /\ gameNotes'[i].IsHit
                    /\ gameNotes'[i].HitAccuracy = gameNotes[i].HitAccuracy
          /\ resolvedCount' - resolvedCount
                = Cardinality(HitSet(gameNotes') \ HitSet(gameNotes))
          /\ HitSet(gameNotes') = HitSet(gameNotes) => stats' = stats]_vars

\* a resolved note next to a sustained note that is pressed later
C2_Witness ==
    /\ state = StatePlaying
    /\ \E i, j \in NoteIdx :
          /\ gameNotes[i].IsHit
          /\ gameNotes[j].IsPressed /\ ~gameNotes[j].IsHit
          /\ gameNotes[j].PressStartTime > gameNotes[i].StartTime

\* C3: after an Update executed in state Playing the state is GameOver
\* exactly if the clock exceeds the session duration or the resolved notes
\* have reached totalNotes.
C3_GameOverIff ==
    [][state = StatePlaying =>
          (state' = StateGameOver
              <=> (currentTime' > GAME_DURATION \/ resolvedCount' >= totalNotes))]_vars

\* the session ended by its last resolution, before the clock reached 30 s
C3_Witness ==
    /\ state = StateGameOver
    /\ totalNotes > 0
    /\ resolvedCount = totalNotes
    /\ currentTime < GAME_DURATION

\* the session ended by the clock with a note left unresolved
C3_WitnessClock ==
    /\ state = StateGameOver
    /\ resolvedCount < totalNotes
    /\ currentTime > GAME_DURATION

\* every note of the session was pressed at exactly its start time
PressedAtStart(i) ==
    IF isSustainedNote(gameNotes[i])
    THEN gameNotes[i].PressStartTime = gameNotes[i].StartTime
    ELSE gameNotes[i].IsHit /\ gameNotes[i].HitAccuracy = Perfect

\* C4 as stated: a session of 5 notes, each pressed at exactly its start time,
\* ends with score 500, maxCombo 5, 5 Perfect, no Miss, before 30 s.
C4_FiveNotes500 ==
    (/\ totalNotes = 5
     /\ state = StateGameOver
     /\ \A i \in NoteIdx : PressedAtStart(i))
    => /\ score = 500
       /\ maxCombo = 5
       /\ perfectHits = 5
       /\ missedHits = 0
       /\ currentTime < GAME_DURATION

\* C4 amended: in a session of 5 notes, none of them sustained, in which every
\* note is resolved as Perfect by its press, the stats are score 500, combo 5,
\* maxCombo 5, 5 Perfect and nothing else, and the state is GameOver from the
\* update that resolved the fifth note, before the clock reaches 30 s.
C4_FiveShortNotes500 ==
    (/\ totalNotes = 5
     /\ \A i \in NoteIdx :
           /\ ~isSustainedNote(gameNotes[i])
           /\ gameNotes[i].IsHit
           /\ gameNotes[i].HitAccuracy = Perfect)
    => /\ score = 500
       /\ combo = 5
       /\ maxCombo = 5
       /\ perfectHits = 5
       /\ goodHits = 0 /\ okHits = 0 /\ missedHits = 0
       /\ state = StateGameOver
       /\ currentTime < GAME_DURATION

\* the fifth of five short notes was resolved at exactly its start time
C4_Witness ==
    /\ totalNotes = 5
    /\ \A i \in NoteIdx : ~isSustainedNote(gameNotes[i]) /\ PressedAtStart(i)
    /\ state = StateGameOver
    /\ currentTime = gameNotes[5].StartTime
    /\ score = 500

\* C5: right after StartGame the session is fresh: zero stats, both clocks at
\* zero, every note active, unresolved, not pressed, not held, without
\* sustain progress and without a recorded judgment.
C5_FreshSession ==
    (state = StatePlaying /\ currentTime = 0)
    => /\ stats = << 0, 0, 0, 0, 0, 0, 0 >>
       /\ sinceGameStart = 0
       /\ am.isPlaying => am.sinceStart = 0
       /\ \A i \in NoteIdx :
             /\ gameNotes[i].IsActive
             /\ ~gameNotes[i].IsHit
             /\ ~gameNotes[i].IsPressed
             /\ ~gameNotes[i].IsBeingHeld
             /\ gameNotes[i].SustainProgress = 0
             /\ gameNotes[i].HitAccuracy = Miss

\* C6: a note that has been pressed and whose lane is still held is not
\* resolved as Miss by an update.
C6_HeldNoteNotSwept ==
    [][\A i \in NoteIdx :
          (/\ state = StatePlaying
           /\ gameNotes[i].IsActive /\ gameNotes[i].IsPressed /\ ~gameNotes[i].IsHit
           /\ lanes'[gameNotes[i].Lane])
          => ~(gameNotes'[i].IsHit /\ gameNotes'[i].HitAccuracy = Miss)]_vars

RECURSIVE tracksWellFormed(_, _)
tracksWellFormed(data, pos) ==
    IF pos >= Len(data) THEN TRUE
    ELSE IF pos + 8 > Len(data) THEN FALSE
    ELSE IF SubSeq(data, pos + 1, pos + 4) # MTrk THEN FALSE
    ELSE IF pos + 8 + Uint32(data, pos + 4) > Len(data) THEN FALSE
    ELSE tracksWellFormed(data, pos + 8 + Uint32(data, pos + 4))

Malformed(data) ==
    \/ Len(data) < 14
    \/ SubSeq(data, 1, 4) # MThd
    \/ ~tracksWellFormed(data, 14)

ParseEnded == parser.pc \in {"done", "failed", "panic"}

\* C8: when ParseFile has ended on a readable file, it has returned an error
\* if the file has a bad signature, a header shorter than 14 bytes, a chunk
\* with a bad signature or a track shorter than its declared length, and it
\* has returned the notes for every other file.
C8_ErrorIffMalformed ==
    (mp.pc = "parsing" /\ mp.file.readable /\ ParseEnded)
        => IF Malformed(mp.file.bytes) THEN parser.pc = "failed" ELSE parser.pc = "done"

\* C9: loading an existing malformed chart file never stops in the parser,
\* and when LoadMIDI has returned it has returned no error and the tracks are
\* exactly the built-in test track.
C9_MalformedFallsBack ==
    (mp.file.exists /\ mp.file.readable /\ Malformed(mp.file.bytes))
        => /\ parser.pc # "panic"
           /\ mp.pc = "returned" => (mp.err = "" /\ mp.tracks = << testTrack >>)

\* C10: a chart with division T, a tempo M set in the track and one
\* Note-On/Note-Off pair at ticks a and b parses to exactly one note that
\* starts at a * M / (T * 1000000) s and lasts (b - a) * M / (T * 1000000) s.
C10_OnePairOneNote ==
    \A T \in Divisions, M \in Tempos, ab \in TickPairs :
        (mp.file.bytes = MinimalChart(T, M, ab[1], ab[2]) /\ parser.pc = "done")
            => parser.notes = << MIDINote(60, 90, ab[1] * M, (ab[2] - ab[1]) * M, 0) >>

\* The parser is about to read an event, and the event after the delta time
\* is a meta event FF 51 03 t1 t2 t3 that lies inside the track and the data.
tempoEventAt(ps) ==
    LET r == readVariableLength(ps.data, ps.position)
    IN /\ ps.pc = "events"
       /\ ~r.err
       /\ r.pos + 6 <= Len(ps.data) /\ r.pos + 6 <= ps.trackEnd
       /\ SubSeq(ps.data, r.pos + 1, r.pos + 3) = << 255, 81, 3 >>

tempoEventValue(ps) ==
    LET r == readVariableLength(ps.data, ps.position)
    IN (byteAt(ps.data, r.pos + 3) * 256 + byteAt(ps.data, r.pos + 4)) * 256
           + byteAt(ps.data, r.pos + 5)

tempoEventEnd(ps) == readVariableLength(ps.data, ps.position).pos + 6

\* C11: the step that processes a meta event of type 0x51 and length 3 sets
\* the tempo to the 24-bit big-endian value of its three data bytes and
\* leaves the position on the byte right after them.
C11_TempoMetaEvent ==
    [][tempoEventAt(parser)
          => /\ parser'.tempo = tempoEventValue(parser)
             /\ parser'.position = tempoEventEnd(parser)]_vars

points(a) == CASE a = Perfect -> 100 [] a = Good -> 75 [] a = OK -> 50 [] OTHER -> 0

\* the stats change as one resolution with judgment a and extra points
resolvedWith(a, extra) ==
    LET c == IF a = Miss THEN 0 ELSE combo + 1
    IN /\ combo' = c
       /\ perfectHits' = perfectHits + (IF a = Perfect THEN 1 ELSE 0)
       /\ goodHits' = goodHits + (IF a = Good THEN 1 ELSE 0)
       /\ okHits' = okHits + (IF a = OK THEN 1 ELSE 0)
       /\ missedHits' = missedHits + (IF a = Miss THEN 1 ELSE 0)
       /\ maxCombo' = (IF c > maxCombo THEN c ELSE maxCombo)
       /\ score' = score + points(a) + (IF c > 10 THEN c \div 10 ELSE 0) + extra

abs(x) == IF x < 0 THEN -x ELSE x

\* the judgment of a distance of ad milliseconds
judged(ad) ==
    CASE ad <= 50 -> Perfect
      [] ad > 50 /\ ad <= 100 -> Good
      [] ad > 100 /\ ad <= 150 -> OK
      [] OTHER -> Miss

\* note i is judged by a press in this step: a short note is resolved with
\* a judgment other than Miss, or a sustained note becomes pressed
JudgedByPress(i) ==
    \/ /\ ~isSustainedNote(gameNotes[i])
       /\ ~gameNotes[i].IsHit /\ gameNotes'[i].IsHit /\ gameNotes'[i].HitAccuracy # Miss
    \/ ~gameNotes[i].IsPressed /\ gameNotes'[i].IsPressed

\* C13: the judgment of a timing difference d is the judgment of |d| with
\* inclusive upper bounds 0.05, 0.10 and 0.15 s, the same for d and -d
\* (evaluated for every d at the start of each session), and a press stores
\* on its note the judgment of its distance to the note start.
C13_JudgmentByDistance ==
    [][/\ state = StateMenu =>
              \A d \in -MaxDiff .. MaxDiff :
                  /\ calculateAccuracy(d) = judged(abs(d))
                  /\ calculateAccuracy(d) = calculateAccuracy(-d)
       /\ \A i \in NoteIdx :
              JudgedByPress(i)
                  => gameNotes'[i].HitAccuracy
                        = judged(abs(currentTime' - gameNotes[i].StartTime))]_vars

\* a sustained note pressed 0.1 s early is held with the judgment Good
C13_Witness ==
    \E i \in NoteIdx :
        /\ gameNotes[i].IsPressed /\ ~gameNotes[i].IsHit
        /\ gameNotes[i].PressStartTime = gameNotes[i].StartTime - 100
        /\ gameNotes[i].HitAccuracy = Good

\* the resolutions of this step that are not a Miss
newHits == (perfectHits' + goodHits' + okHits') - (perfectHits + goodHits + okHits)

\* C14: in every step other than StartGame no stat but combo decreases, and
\* combo changes by +1 for each resolution that is not a Miss, or restarts
\* from 0 when the step has a Miss (it then counts at most the hits of the step).
C14_StatsMonotonic ==
    [][~(state = StateMenu /\ state' = StatePlaying) =>
          /\ score' >= score /\ maxCombo' >= maxCombo
          /\ perfectHits' >= perfectHits /\ goodHits' >= goodHits
          /\ okHits' >= okHits /\ missedHits' >= missedHits
          /\ IF missedHits' = missedHits
             THEN combo' = combo + newHits
             ELSE combo' >= 0 /\ combo' <= newHits]_vars

\* a combo of at least 2 has been reset by a Miss
C14_Witness ==
    /\ state = StatePlaying
    /\ combo = 0 /\ maxCombo >= 2 /\ missedHits >= 1 /\ score > 0

\* the start of the earliest raw note
firstStart(notes) ==
    CHOOSE x \in {notes[i].StartTime : i \in 1 .. Len(notes)} :
        \A i \in 1 .. Len(notes) : x <= notes[i].StartTime

\* the raw notes whose adjusted start is within the 30 s window, in order
inWindow(notes) ==
    SelectSeq(notes, LAMBDA m : m.StartTime - firstStart(notes) + 2000 <= GAME_DURATION)

\* C15: the session notes of a non-empty chart are the raw notes whose
\* adjusted start rawStart - earliest + 2.0 is at most 30.0 s, in order, each
\* with that start and with its duration, clipped to 30.0 - start when the
\* note would end past 30.0 s; a session note starts at exactly 2.0 s.
C15_AdaptedNotes ==
    guitarTrack # << >> =>
        LET raw == inWindow(guitarTrack)
        IN /\ Len(gameNotes) = Len(raw)
           /\ \A i \in 1 .. Len(raw) :
                 LET start == raw[i].StartTime - firstStart(guitarTrack) + 2000
                 IN /\ gameNotes[i].StartTime = start
                    /\ gameNotes[i].Duration
                          = (IF start + raw[i].Duration > GAME_DURATION
                             THEN GAME_DURATION - start ELSE raw[i].Duration)
                    /\ start + gameNotes[i].Duration <= GAME_DURATION
           /\ \E i \in NoteIdx : gameNotes[i].StartTime = 2000

laneOf(pitch) ==
    CASE pitch < 60 -> 0
      [] pitch >= 60 /\ pitch <= 72 -> 1
      [] pitch > 72 -> 2

\* the notes of the guitar track that LoadMIDITrack keeps, in order
keptNotes ==
    SelectSeq(guitarTrack,
              LAMBDA m : adjustedStartTime(m, earliestNoteTime(guitarTrack, 1, 999999000))
                            <= GAME_DURATION)

vlqBytes(data, pos) ==
    IF \E k \in 0 .. 3 : byteAt(data, pos + k) < 128
    THEN 1 + CHOOSE k \in 0 .. 3 :
                 /\ byteAt(data, pos + k) < 128
                 /\ \A j \in 0 .. k - 1 : byteAt(data, pos + j) >= 128
    ELSE 4

RECURSIVE vlqValue(_, _, _)
vlqValue(data, pos, n) ==
    IF n = 0 THEN 0
    ELSE vlqValue(data, pos, n - 1) * 128 + (byteAt(data, pos + n - 1) % 128)

\* a whole quantity lies in the data at pos
vlqInData(data, pos) ==
    \E k \in 0 .. 3 :
        /\ pos + k < Len(data)
        /\ k < 3 => byteAt(data, pos + k) < 128
        /\ \A j \in 0 .. k - 1 : byteAt(data, pos + j) >= 128

\* C17: the three examples decode to 127, 128 and 16383; wherever the parser
\* reads a delta time, the decoded value is the big-endian sum of the low 7
\* bits of the bytes up to the first one below 0x80 (at most 4), the position
\* moves by that number of bytes, and the step adds the value to the tick.
C17_VariableLength ==
    [][/\ readVariableLength(<< 127 >>, 0) = [value |-> 127, pos |-> 1, err |-> FALSE]
       /\ readVariableLength(<< 129, 0 >>, 0) = [value |-> 128, pos |-> 2, err |-> FALSE]
       /\ readVariableLength(<< 255, 127 >>, 0) = [value |-> 16383, pos |-> 2, err |-> FALSE]
       /\ (parser.pc = "events" /\ vlqInData(parser.data, parser.position))
             => LET n == vlqBytes(parser.data, parser.position)
                    v == vlqValue(parser.data, parser.position, n)
                IN /\ readVariableLength(parser.data, parser.position)
                         = [value |-> v, pos |-> parser.position + n, err |-> FALSE]
                   /\ parser'.currentTick = parser.currentTick + v]_vars

\* the delta times 127, 128, 16383 and FF FF FF FF have all been read
C17_Witness == parser.currentTick = 127 + 128 + 16383 + 268435455

zeroStats == stats = << 0, 0, 0, 0, 0, 0, 0 >>

\* C18: with no notes, StartGame moves the menu to Playing with zero stats,
\* and the first Update after it ends the session with zero stats.
C18_EmptyChartEnds ==
    [][totalNotes = 0 =>
          /\ (state = StateMenu /\ state' # StateMenu)
                => (state' = StatePlaying /\ zeroStats')
          /\ state = StatePlaying => (state' = StateGameOver /\ zeroStats')]_vars

\* the first Update of a session without notes has run
C18_Witness ==
    /\ gameNotes = << >> /\ totalNotes = 0
    /\ state = StateGameOver /\ currentTime = 50 /\ zeroStats

\* C19: in every state of the audio manager, StopPlayback leaves the
\* playing flag false (the speaker pulls no more buffers), a second call
\* changes nothing more, and a call on a stopped manager changes nothing.
C19_StopIdempotent ==
    /\ ~StopPlayback(am).isPlaying
    /\ StopPlayback(StopPlayback(am)) = StopPlayback(am)
    /\ ~am.isPlaying => StopPlayback(am) = am

\* EndGame has stopped a playback from which the speaker had pulled a buffer
C19_Witness ==
    /\ state = StateGameOver
    /\ ~am.isPlaying /\ am.isInitialized /\ am.currentSample > 0

\* the game side of one frame at time t with the keys in state down, as a
\* function of the game state alone
gameAfterFrame(t, down) ==
    IF t > songDuration THEN << GS, StateGameOver >>
    ELSE LET gs == Frame(GS, keyDown, down, t)
         IN << gs, IF checkAllNotesProcessed(gs, totalNotes) THEN StateGameOver
                   ELSE StatePlaying >>

C21_StateMachine ==
    [][/\ state' # state =>
              << state, state' >> \in {<< StateMenu, StatePlaying >>,
                                       << StatePlaying, StateGameOver >>,
                                       << StateGameOver, StateMenu >>}
       /\ (state # StatePlaying /\ state' = state) =>
              /\ currentTime' = currentTime
              /\ sinceGameStart' = sinceGameStart
              /\ stats' = stats
              /\ gameNotes' = gameNotes
              /\ lanes' = lanes
       /\ state = StateGameOver =>
              /\ stats' = stats
              /\ gameNotes' = gameNotes
              /\ currentTime' = currentTime]_vars

\* back in the menu after a session, with a key down, the final stats of
\* that session still in place
C21_Witness ==
    /\ state = StateMenu
    /\ resolvedCount = totalNotes /\ totalNotes > 0
    /\ score > 0
    /\ \E i \in LaneIdx : keyDown[i]


\* the notes a press in lane l at time t may select
pressCandidates(l, t) ==
    {i \in NoteIdx :
        /\ gameNotes[i].IsActive /\ ~gameNotes[i].IsHit /\ ~gameNotes[i].IsPressed
        /\ gameNotes[i].Lane = l
        /\ gameNotes[i].StartTime - t > -200}

\* lane l is just pressed in the frame this step runs
JustPressed(l) ==
    /\ state = StatePlaying /\ currentTime' <= songDuration
    /\ ~keyDown[l] /\ keyDown'[l]

C23_MissPressNoEffect ==
    [][\A l \in LaneIdx :
          JustPressed(l) =>
              LET now == currentTime'
                  c   == findClosestNote(GS, l, now)
              IN (c # 0 /\ abs(now - gameNotes[c].StartTime) > 150) =>
                    /\ calculateAccuracy(now - gameNotes[c].StartTime) = Miss
                    /\ handleKeyPress(GS, l, now) = GS
                    /\ gameNotes'[c] = gameNotes[c]
                    /\ ~gameNotes'[c].IsHit /\ ~gameNotes'[c].IsPressed /\ gameNotes'[c].IsActive
                    /\ HitSet(gameNotes') = HitSet(gameNotes) => stats' = stats]_vars

\* the first frame of a session pressed the lane of a note that starts later:
\* the note is as StartGame left it and no stat has moved
C23_Witness ==
    /\ state = StatePlaying /\ currentTime = 50
    /\ \E i \in NoteIdx :
          /\ keyDown[gameNotes[i].Lane]
          /\ gameNotes[i].StartTime > currentTime + 150
          /\ ~gameNotes[i].IsHit /\ ~gameNotes[i].IsPressed
    /\ stats = << 0, 0, 0, 0, 0, 0, 0 >>


JustReleased(l) ==
    /\ state = StatePlaying /\ currentTime' <= songDuration
    /\ keyDown[l] /\ ~keyDown'[l]

\* the notes of lane l that are pressed and open
openNotes(l) ==
    {i \in NoteIdx :
        /\ gameNotes[i].IsActive /\ gameNotes[i].Lane = l
        /\ gameNotes[i].IsPressed /\ ~gameNotes[i].IsHit}

\* the counter of judgment a
hitsOf(gs, a) ==
    CASE a = Perfect -> gs.perfectHits
      [] a = Good -> gs.goodHits
      [] a = OK -> gs.okHits
      [] OTHER -> gs.missedHits

\* the judgment one tier below a, for Perfect and Good
lowered(a) == IF a = Perfect THEN Good ELSE IF a = Good THEN OK ELSE a

\* the judgment a release at time now scores for note i
releaseJudgment(i, now) ==
    IF abs(now - noteEnd(gameNotes[i])) <= 150
    THEN gameNotes[i].HitAccuracy
    ELSE lowered(gameNotes[i].HitAccuracy)

\* C25: a release that finds a held sustained note resolves it and scores
\* the start judgment when the release is within 0.15 s of the note end, and
\* otherwise the start judgment lowered by one tier for Perfect and Good and
\* unchanged for OK; the scored judgment is never above the start judgment
\* and never Miss.
C25_ReleaseJudgment ==
    [][\A l \in LaneIdx :
          (JustReleased(l) /\ openNotes(l) # {}) =>
              LET now   == currentTime'
                  i     == Least(openNotes(l))
                  a     == releaseJudgment(i, now)
                  after == handleKeyRelease(GS, l, now)
              IN /\ gameNotes[i].HitAccuracy # Miss
                 /\ a # Miss /\ a <= gameNotes[i].HitAccuracy
                 /\ after.gameNotes[i].IsHit /\ ~after.gameNotes[i].IsPressed
                 /\ hitsOf(after, a) = hitsOf(GS, a) + 1
                 /\ processedNotes(after) = resolvedCount + 1
                 /\ after.combo = combo + 1
                 /\ gameNotes'[i].IsHit
                 /\ hitsOf(GS', a) >= hitsOf(GS, a) + 1]_vars

\* a note pressed at its start (Perfect) and released more than 0.15 s before
\* its end has been scored as Good
C25_Witness ==
    \E i \in NoteIdx :
        /\ gameNotes[i].Duration > 300
        /\ gameNotes[i].IsHit /\ gameNotes[i].PressStartTime = gameNotes[i].StartTime
        /\ currentTime < noteEnd(gameNotes[i]) - 150
        /\ perfectHits = 0 /\ goodHits = 1 /\ okHits = 0 /\ missedHits = 0


\* the resolved notes whose stored judgment is a
storedAs(a) == {i \in NoteIdx : gameNotes[i].IsHit /\ gameNotes[i].HitAccuracy = a}

\* C26: in every state of a session the number of resolved notes whose
\* stored judgment is a given tier equals the counter of that tier, so the
\* judgment stored by a release is the one it added to the stats.
C26_StoredJudgmentIsScored ==
    \A a \in {Miss, OK, Good, Perfect} : Cardinality(storedAs(a)) = hitsOf(GS, a)


\* C27: when the lane key of a held sustained note is released before the
\* note's end time, the frame resolves the note, and as a Miss: if it is the
\* only note that frame resolves, missedHits grows by 1, combo is 0 and the
\* score is unchanged.
C27_EarlyReleaseIsMiss ==
    [][\A l \in LaneIdx : \A i \in openNotes(l) :
          (/\ JustReleased(l)
           /\ isSustainedNote(gameNotes[i])
           /\ currentTime' < noteEnd(gameNotes[i]))
          => /\ gameNotes'[i].IsHit
             /\ HitSet(gameNotes') \ HitSet(gameNotes) = {i}
                   => /\ missedHits' = missedHits + 1
                      /\ combo' = 0
                      /\ score' = score]_vars


\* C28: in every state each lane has at most one note that is pressed and
\* not resolved.
C28_OneOpenNotePerLane ==
    \A l \in LaneIdx :
        Cardinality({i \in NoteIdx : gameNotes[i].Lane = l /\ gameNotes[i].IsPressed
                                        /\ ~gameNotes[i].IsHit}) <= 1


\* C29: in every pull each sounding note is divided by the number of notes
\* that sound at that sample time.
C29_EqualDivisor ==
    streamed # << >> =>
        \A i \in streamed.active : streamed.divisors[i] = Cardinality(streamed.active)


\* the last note of a sequence of notes closes the open note n
closes(notes, n) ==
    /\ Len(notes) > 0
    /\ notes[Len(notes)].Pitch = n.Pitch
    /\ notes[Len(notes)].Velocity = n.Velocity
    /\ notes[Len(notes)].StartTime = n.StartTime

\* C30: the open-note map is empty when the events of a track start; a note
\* opened by a Note-On stays open, as it is, until an event closes it; and
\* the end of the track appends, after the closed notes of the track, each
\* note still open exactly once with its pitch, velocity and start time and
\* the duration 0.5 s.
C30_OpenNotesEmitted ==
    [][/\ (parser.pc = "tracks" /\ parser'.pc \in {"events", "flush"})
              => parser'.activeNotes = << >>
       /\ (parser.pc = "events" /\ parser'.pc # "panic")
              => \A p \in DOMAIN parser.activeNotes :
                    \/ /\ p \in DOMAIN parser'.activeNotes
                       /\ parser'.activeNotes[p] = parser.activeNotes[p]
                    \/ /\ Len(parser'.trackNotes) = Len(parser.trackNotes) + 1
                       /\ closes(parser'.trackNotes, parser.activeNotes[p])
       /\ parser.pc = "flush"
              => LET closed == parser.notes \o parser.trackNotes
                     open   == DOMAIN parser.activeNotes
                 IN /\ Len(parser'.notes) = Len(closed) + Cardinality(open)
                    /\ SubSeq(parser'.notes, 1, Len(closed)) = closed
                    /\ \A p \in open :
                          Cardinality({i \in Len(closed) + 1 .. Len(parser'.notes) :
                              parser'.notes[i]
                                 = [parser.activeNotes[p] EXCEPT
                                       !.Duration = defaultDuration(parser)]}) = 1]_vars


\* C31: the parser never reads a byte at an index outside the input, so
\* parsing never stops in a crash: in every state the parser has not
\* panicked, and once LoadMIDI has returned the parser has ended with its
\* notes or with an error.
C31_NoReadOutsideInput ==
    /\ parser.pc # "panic"
    /\ (mp.pc = "returned" /\ mp.file.exists) => parser.pc \in {"done", "failed"}


\* C32: in every state the four counters add up to the number of resolved
\* notes, which is at most totalNotes; and during a session no resolved note
\* becomes unresolved, no counter decreases, and a step adds to the counters
\* exactly the number of notes it resolves.
C32_CountersMatchHits ==
    /\ [](/\ resolvedCount = Cardinality(HitSet(gameNotes))
          /\ resolvedCount <= totalNotes)
    /\ [][state = StatePlaying =>
             /\ HitSet(gameNotes) \subseteq HitSet(gameNotes')
             /\ perfectHits' >= perfectHits /\ goodHits' >= goodHits
             /\ okHits' >= okHits /\ missedHits' >= missedHits
             /\ resolvedCount' - resolvedCount
                   = Cardinality(HitSet(gameNotes') \ HitSet(gameNotes))]_vars

\* a session that ended with one note resolved by its release and the other
\* swept as a Miss while it was pressed
C32_Witness ==
    /\ state = StateGameOver
    /\ totalNotes = 2 /\ resolvedCount = 2
    /\ goodHits = 1 /\ missedHits = 1
    /\ \E i \in NoteIdx : gameNotes[i].IsPressed /\ gameNotes[i].IsHit


\* C33: in a session whose frames are at most 0.5 s apart, every note that
\* is not active is resolved, and every note more than 0.75 s past its
\* start is resolved, so the notes that scrolled off the screen are counted.
C33_InactiveIsResolved ==
    \A i \in NoteIdx :
        /\ ~gameNotes[i].IsActive => gameNotes[i].IsHit
        /\ (state # StateMenu /\ currentTime > gameNotes[i].StartTime + 750)
              => gameNotes[i].IsHit

\* a note that no press resolved has scrolled off the screen in the frame
\* 0.8 s past its start: it is inactive and was counted as a Miss before
C33_Witness ==
    \E i \in NoteIdx :
        /\ ~gameNotes[i].IsActive /\ gameNotes[i].IsHit
        /\ gameNotes[i].HitAccuracy = Miss
        /\ missedHits >= 1
        /\ currentTime = gameNotes[i].StartTime + 800


\* the audio was initialised and the track was loaded
audioReady == am.isInitialized /\ am.loaded

\* C34: with the audio initialised and the track loaded, the playing flag is
\* true exactly while the state is Playing, and StartPlayback leaves a
\* playing stream as it is; StartGame finds the playback stopped and starts
\* it with a fresh start time and sample count, and every step into
\* GameOver stops it.
C34_PlayingIffPlayback ==
    /\ [](audioReady =>
             /\ am.isPlaying <=> state = StatePlaying
             /\ am.isPlaying => StartPlayback(am) = am)
    /\ [][audioReady =>
             /\ (state = StateMenu /\ state' = StatePlaying)
                   => /\ ~am.isPlaying /\ am'.isPlaying
                      /\ am'.sinceStart = 0 /\ am'.currentSample = 0
             /\ (state = StatePlaying /\ state' = StateGameOver)
                   => am.isPlaying /\ ~am'.isPlaying]_vars

\* a second session has just started: its audio plays from a fresh start
\* time while a note still carries the judgment of the session before
C34_Witness ==
    /\ audioReady
    /\ state = StatePlaying /\ currentTime = 0
    /\ am.isPlaying /\ am.sinceStart = 0 /\ am.currentSample = 0
    /\ streamed # << >>
    /\ \E i \in NoteIdx : gameNotes[i].HitAccuracy # Miss /\ ~gameNotes[i].IsHit

====
